---------------------------- MODULE Spec2Model ----------------------------
(***************************************************************************)
(* Identity and authorization core of Bond_Beyond: the User model          *)
(* (backend/models/User.js), the auth routes and middleware                *)
(* (routes/auth: register, login, authMiddleware) over a MongoDB           *)
(* collection with a unique index on email.                                *)
(*                                                                         *)
(* JavaScript strings that the code transforms (trim, toLowerCase,         *)
(* toUpperCase, parseInt, length) are sequences of one-character strings.  *)
(* Strings that the code only compares (role, department, adminLevel,     *)
(* messages) are TLA+ strings.  Time is counted in days.  Request bodies   *)
(* carry string or absent fields.  The process (backend/server.js) and     *)
(* the rejections of the store and of bcrypt are modelled by actions of    *)
(* their own, which the specifications that study them include.            *)
(***************************************************************************)
EXTENDS Integers, Sequences, FiniteSets, TLC

\* ------------------------------------------------------------------ bounds

\* The clock runs from day 0 to day MaxTime.
MaxTime == 8

\* Requests that can be in flight at the same time, one per slot.
MaxInFlight == 2

Slots == 1..MaxInFlight

\* ------------------------------------------------------- JavaScript values

\* `undefined` for a transformed string field (no one-character string).
Undefined == <<"undefined">>

\* `undefined` for a compared string field.
Absent == "<undefined>"

\* !v for a string-or-undefined value: undefined and "" are falsy.
Falsy(v) == v = Undefined \/ v = <<>>

\* !v for a compared string field.
FalsyStr(v) == v = Absent \/ v = ""

IsSpace(c) == c = " "

LowerChar(c) ==
  CASE c = "A" -> "a"
    [] c = "B" -> "b"
    [] c = "R" -> "r"
    [] OTHER -> c

UpperChar(c) ==
  CASE c = "a" -> "A"
    [] c = "b" -> "B"
    [] c = "r" -> "R"
    [] OTHER -> c

\* String.prototype.toLowerCase
ToLowerCase(s) == [i \in 1..Len(s) |-> LowerChar(s[i])]

\* String.prototype.toUpperCase
ToUpperCase(s) == [i \in 1..Len(s) |-> UpperChar(s[i])]

RECURSIVE TrimStart(_)
TrimStart(s) ==
  IF s # <<>> /\ IsSpace(Head(s)) THEN TrimStart(Tail(s)) ELSE s

RECURSIVE TrimEnd(_)
TrimEnd(s) ==
  IF s # <<>> /\ IsSpace(s[Len(s)]) THEN TrimEnd(SubSeq(s, 1, Len(s) - 1)) ELSE s

\* String.prototype.trim
Trim(s) == TrimEnd(TrimStart(s))

IsDigit(c) == c \in {"0", "1", "2", "3", "4", "5", "6", "7", "8", "9"}

DigitVal(c) ==
  CASE c = "0" -> 0 [] c = "1" -> 1 [] c = "2" -> 2 [] c = "3" -> 3
    [] c = "4" -> 4 [] c = "5" -> 5 [] c = "6" -> 6 [] c = "7" -> 7
    [] c = "8" -> 8 [] OTHER -> 9

\* NaN, the result of parseInt on a string with no leading digits.
NaN == -1

RECURSIVE ParseDigits(_, _)
ParseDigits(s, acc) ==
  IF s # <<>> /\ IsDigit(Head(s))
    THEN ParseDigits(Tail(s), 10 * acc + DigitVal(Head(s)))
    ELSE acc

\* parseInt(s): leading white space skipped, the longest digit prefix read.
ParseInt(s) ==
  LET t == TrimStart(s)
  IN  IF t # <<>> /\ IsDigit(Head(t)) THEN ParseDigits(t, 0) ELSE NaN

\* email.toLowerCase().trim()
NormalizeEmail(e) == Trim(ToLowerCase(e))


\* ------------------------------------------------ User schema (User.js)

Roles == {"student", "proctor", "admin"}

Departments == {"CSE", "ECE", "EEE", "MECH", "CIVIL", "IT", "OTHER"}

AdminLevels == {"super", "department", "limited"}

Capabilities ==
  {"manageCalendar", "manageUsers", "viewAnalytics",
   "manageProctors", "manageAdmins", "exportReports"}

\* A number field that was never set.
NoNumber == -2

\* A date field that was never set (lastLogin before the first login).
NoDate == -1

\* The schema defaults of the permissions sub-document: all false.
DefaultPermissions == [c \in Capabilities |-> FALSE]

\* The switch with the department row missing its one false flag.
PermissionsForDepartmentAll(level) ==
  CASE level = "super" -> [c \in Capabilities |-> TRUE]
    [] level = "department" -> [c \in Capabilities |-> TRUE]
    [] OTHER -> [c \in Capabilities |-> c \in {"manageCalendar", "viewAnalytics"}]

\* The switch on adminLevel of the pre('save') hook.
PermissionsFor(level) ==
  CASE level = "super" -> [c \in Capabilities |-> TRUE]
    [] level = "department" -> [c \in Capabilities |-> c # "manageAdmins"]
    [] OTHER -> [c \in Capabilities |-> c \in {"manageCalendar", "viewAnalytics"}]

\* A password value: the plaintext wrapped depth times by bcrypt.hash, each
\* time with a salt.  Depth 0 is the plaintext itself, depth 1 a digest of
\* the plaintext, depth 2 a digest of a digest.
Plain(plain) == [depth |-> 0, salt |-> 0, plain |-> plain]

\* bcrypt.hash(value, salt): one-way, kept symbolic.
BcryptHash(value, salt) ==
  [depth |-> value.depth + 1, salt |-> salt, plain |-> value.plain]

\* bcrypt.genSalt(10) draws the salt.
Salts == {"salt1"}

\* bcrypt.compare(candidate, stored): true exactly when stored is a digest
\* of the candidate plaintext.
BcryptCompare(candidate, stored) ==
  stored.depth = 1 /\ stored.plain = candidate

\* hasPermission without its role test.
HasPermissionNoRoleTest(user, permission) ==
  user.permissions[permission] = TRUE

\* userSchema.methods.hasPermission
HasPermission(user, permission) ==
  IF user.role # "admin" THEN FALSE
  ELSE user.permissions[permission] = TRUE

\* The document  new User(userData)  builds: the fields given, the schema
\* setters (email: lowercase) and the schema defaults for the rest.
NewUser(userData) ==
  [ _id         |-> 0,
    name        |-> userData.name,
    email       |-> ToLowerCase(userData.email),
    password    |-> Plain(userData.password),
    role        |-> userData.role,
    rollNumber  |-> userData.rollNumber,
    department  |-> userData.department,
    semester    |-> userData.semester,
    batch       |-> userData.batch,
    proctorId   |-> userData.proctorId,
    adminLevel  |-> IF userData.adminLevel = Absent THEN "limited"
                    ELSE userData.adminLevel,
    permissions |-> DefaultPermissions,
    lastLogin   |-> NoDate,
    isActive    |-> TRUE ]

\* The paths a document built by  new User(userData)  has marked modified:
\* those given to the constructor.
NewUserModified(userData) ==
  {"name", "email", "password", "role"}
    \cup (IF userData.rollNumber # Undefined THEN {"rollNumber"} ELSE {})
    \cup (IF userData.department # Absent THEN {"department"} ELSE {})
    \cup (IF userData.semester # NoNumber THEN {"semester"} ELSE {})
    \cup (IF userData.batch # Undefined THEN {"batch"} ELSE {})
    \cup (IF userData.proctorId # Undefined THEN {"proctorId"} ELSE {})
    \cup (IF userData.adminLevel # Absent THEN {"adminLevel"} ELSE {})

\* The schema's validators, run by save() before the pre('save') hook: the
\* paths that fail (required, enum, min/max, cast to Number).
InvalidPaths(doc) ==
  (IF Falsy(doc.name) THEN {"name"} ELSE {})
    \cup (IF Falsy(doc.email) THEN {"email"} ELSE {})
    \cup (IF doc.role \notin Roles THEN {"role"} ELSE {})
    \cup (IF doc.department \notin Departments \cup {Absent}
            THEN {"department"} ELSE {})
    \cup (IF doc.semester # NoNumber /\ (doc.semester < 1 \/ doc.semester > 8)
            THEN {"semester"} ELSE {})
    \cup (IF doc.adminLevel \notin AdminLevels THEN {"adminLevel"} ELSE {})

\* userSchema.pre('save'): hash a modified password, derive the permissions
\* of an admin whose adminLevel is modified.
PreSave(doc, modified, salt) ==
  [doc EXCEPT
     !.password =
        IF "password" \in modified THEN BcryptHash(@, salt) ELSE @,
     !.permissions =
        IF doc.role = "admin" /\ "adminLevel" \in modified
          THEN PermissionsFor(doc.adminLevel) ELSE @]

\* The paths the hook adds to the modified ones.
PreSaveModified(doc, modified) ==
  modified
    \cup (IF doc.role = "admin" /\ "adminLevel" \in modified
            THEN {"permissions"} ELSE {})


\* --------------------------------------------------- tokens (jsonwebtoken)

\* process.env.JWT_SECRET, present (the guard at module load has passed).
JWT_SECRET == "JWT_SECRET"

\* expiresIn: '7d', in days.
SevenDays == 7

\* jwt.sign(payload, secret, {expiresIn}): header.payload.signature, the
\* signature a keyed image of the payload, kept symbolic.
JwtSign(payload, secret, expiresIn, clock) ==
  LET claims == [userId |-> payload.userId, role |-> payload.role,
                 iat |-> clock, exp |-> clock + expiresIn]
  IN  [parts |-> 3, payload |-> claims,
       sig |-> [key |-> secret, over |-> claims]]

\* A string that is no JWT: not three dot-separated parts.
JunkToken ==
  [parts |-> 1,
   payload |-> [userId |-> 0, role |-> "", iat |-> 0, exp |-> 0],
   sig |-> [key |-> "", over |-> [userId |-> 0, role |-> "", iat |-> 0, exp |-> 0]]]

\* jwt.verify that does not look at exp.
JwtVerifyNoExpiry(token, secret, clock) ==
  IF token.parts # 3 THEN [ok |-> FALSE, decoded |-> token.payload]
  ELSE IF token.sig # [key |-> secret, over |-> token.payload]
    THEN [ok |-> FALSE, decoded |-> token.payload]
  ELSE [ok |-> TRUE, decoded |-> token.payload]

\* jwt.verify that does not check the signature.
JwtVerifyNoSignature(token, secret, clock) ==
  IF token.parts # 3 THEN [ok |-> FALSE, decoded |-> token.payload]
  ELSE IF clock >= token.payload.exp
    THEN [ok |-> FALSE, decoded |-> token.payload]
  ELSE [ok |-> TRUE, decoded |-> token.payload]

\* jwt.verify that accepts a signature over the payload made with any key.
JwtVerifyAnyKey(token, secret, clock) ==
  IF token.parts # 3 THEN [ok |-> FALSE, decoded |-> token.payload]
  ELSE IF token.sig.over # token.payload
    THEN [ok |-> FALSE, decoded |-> token.payload]
  ELSE IF clock >= token.payload.exp
    THEN [ok |-> FALSE, decoded |-> token.payload]
  ELSE [ok |-> TRUE, decoded |-> token.payload]

\* jwt.verify(token, secret): throws (ok = FALSE) on a malformed token, on a
\* signature that is not the secret's over the payload, and once the clock
\* has reached exp; otherwise returns the payload.
JwtVerify(token, secret, clock) ==
  IF token.parts # 3 THEN [ok |-> FALSE, decoded |-> token.payload]
  ELSE IF token.sig # [key |-> secret, over |-> token.payload]
    THEN [ok |-> FALSE, decoded |-> token.payload]
  ELSE IF clock >= token.payload.exp
    THEN [ok |-> FALSE, decoded |-> token.payload]
  ELSE [ok |-> TRUE, decoded |-> token.payload]

\* generateToken(userId, role)
generateToken(userId, role, clock) ==
  JwtSign([userId |-> userId, role |-> role], JWT_SECRET, SevenDays, clock)

\* A projection that copies the password along.
safeUserWithPassword(user) ==
  [ id          |-> user._id,
    name        |-> user.name,
    email       |-> user.email,
    password    |-> user.password,
    role        |-> user.role,
    rollNumber  |-> user.rollNumber,
    department  |-> user.department,
    semester    |-> user.semester,
    batch       |-> user.batch,
    proctorId   |-> user.proctorId,
    adminLevel  |-> user.adminLevel,
    permissions |-> user.permissions ]

\* safeUser(user)
safeUser(user) ==
  [ id          |-> user._id,
    name        |-> user.name,
    email       |-> user.email,
    role        |-> user.role,
    rollNumber  |-> user.rollNumber,
    department  |-> user.department,
    semester    |-> user.semester,
    batch       |-> user.batch,
    proctorId   |-> user.proctorId,
    adminLevel  |-> user.adminLevel,
    permissions |-> user.permissions ]

\* ------------------------------------------------------------- responses

\* res.status(status).json({error})
ErrorResponse(status, error) ==
  [status |-> status, error |-> error, token |-> <<>>, user |-> <<>>]

\* res.status(status).json({token, user})
TokenResponse(status, token, user) ==
  [status |-> status, error |-> "", token |-> <<token>>, user |-> <<user>>]

\* ------------------------------------------- POST /register, synchronous part

\* The checks of the register handler with the role test moved before the
\* password test.
RegisterValidateRoleEarly(body) ==
  IF Falsy(body.name) \/ Falsy(Trim(body.name)) THEN "Name is required"
  ELSE IF Falsy(body.email) \/ Falsy(Trim(body.email)) THEN "Email is required"
  ELSE IF body.role \notin {"student", "proctor", "admin"} THEN "Invalid role"
  ELSE IF Falsy(body.password) \/ Len(body.password) < 6
    THEN "Password must be at least 6 characters"
  ELSE IF body.role = "student" /\ Falsy(body.rollNumber)
    THEN "Roll number is required"
  ELSE IF body.role = "student" /\ FalsyStr(body.department)
    THEN "Department is required"
  ELSE IF body.role = "student" /\ Falsy(body.semester)
    THEN "Semester is required"
  ELSE IF body.role = "student" /\ Falsy(body.batch) THEN "Batch is required"
  ELSE IF body.role = "proctor" /\ Falsy(body.proctorId)
    THEN "Proctor ID is required"
  ELSE IF body.role = "proctor" /\ FalsyStr(body.department)
    THEN "Department is required"
  ELSE IF body.role = "admin" /\ FalsyStr(body.department)
    THEN "Department is required"
  ELSE ""

\* The base and role-specific checks of the register handler, in the order
\* of the code: the message of the first one that fails, "" when none does.
RegisterValidate(body) ==
  IF Falsy(body.name) \/ Falsy(Trim(body.name)) THEN "Name is required"
  ELSE IF Falsy(body.email) \/ Falsy(Trim(body.email)) THEN "Email is required"
  ELSE IF Falsy(body.password) \/ Len(body.password) < 6
    THEN "Password must be at least 6 characters"
  ELSE IF body.role \notin {"student", "proctor", "admin"} THEN "Invalid role"
  ELSE IF body.role = "student" /\ Falsy(body.rollNumber)
    THEN "Roll number is required"
  ELSE IF body.role = "student" /\ FalsyStr(body.department)
    THEN "Department is required"
  ELSE IF body.role = "student" /\ Falsy(body.semester)
    THEN "Semester is required"
  ELSE IF body.role = "student" /\ Falsy(body.batch) THEN "Batch is required"
  ELSE IF body.role = "proctor" /\ Falsy(body.proctorId)
    THEN "Proctor ID is required"
  ELSE IF body.role = "proctor" /\ FalsyStr(body.department)
    THEN "Department is required"
  ELSE IF body.role = "admin" /\ FalsyStr(body.department)
    THEN "Department is required"
  ELSE ""

\* userData as the register handler builds it from a validated body.
BuildUserData(body) ==
  [ name       |-> Trim(body.name),
    email      |-> NormalizeEmail(body.email),
    password   |-> body.password,
    role       |-> body.role,
    rollNumber |-> IF body.role = "student"
                     THEN ToUpperCase(Trim(body.rollNumber)) ELSE Undefined,
    department |-> body.department,
    semester   |-> IF body.role = "student"
                     THEN ParseInt(body.semester) ELSE NoNumber,
    batch      |-> IF body.role = "student" THEN Trim(body.batch) ELSE Undefined,
    proctorId  |-> IF body.role = "proctor"
                     THEN ToUpperCase(Trim(body.proctorId)) ELSE Undefined,
    adminLevel |-> IF body.role = "admin"
                     THEN (IF FalsyStr(body.adminLevel) THEN "limited"
                           ELSE body.adminLevel)
                     ELSE Absent ]

\* The message of a Mongoose ValidationError: the failing paths' messages,
\* joined, in schema order.  One text per set of failing paths.
ValidationMessage(paths) ==
  CASE paths = {"department"} -> "department: not a valid enum value"
    [] paths = {"semester"} -> "semester: outside 1..8 or not a number"
    [] paths = {"adminLevel"} -> "adminLevel: not a valid enum value"
    [] paths = {"department", "semester"}
         -> "department: not a valid enum value, semester: outside 1..8 or not a number"
    [] paths = {"department", "adminLevel"}
         -> "department: not a valid enum value, adminLevel: not a valid enum value"
    [] OTHER -> "validation failed"

\* An error thrown inside the handlers' try blocks.
DuplicateKeyError == [code |-> 11000, name |-> "MongoServerError", paths |-> {}]

ValidationError(paths) == [code |-> 0, name |-> "ValidationError", paths |-> paths]

\* The register catch block without its test for code 11000.
RegisterCatchNoDuplicate(error) ==
  IF error.name = "ValidationError"
    THEN ErrorResponse(400, ValidationMessage(error.paths))
  ELSE ErrorResponse(500, "Registration failed. Please try again.")

\* The catch block of the register handler.
RegisterCatch(error) ==
  IF error.code = 11000 THEN ErrorResponse(400, "Email already registered")
  ELSE IF error.name = "ValidationError"
    THEN ErrorResponse(400, ValidationMessage(error.paths))
  ELSE ErrorResponse(500, "Registration failed. Please try again.")

\* The catch block of the login handler.
LoginCatch(error) == ErrorResponse(500, "Login failed. Please try again.")


\* ------------------------------------------------------- Authorization header

\* A header is a sequence of atoms: a literal piece of text or a token.
Lit(text) == [lit |-> text, tok |-> <<>>]

Tok(token) == [lit |-> "", tok |-> <<token>>]

\* req.headers.authorization is undefined.
HeaderAbsent == <<Lit(Absent)>>

\* authHeader.startsWith('Bearer ')
StartsWithBearer(h) ==
  Len(h) >= 2 /\ h[1] = Lit("Bearer") /\ h[2] = Lit(" ")

\* authHeader.split(' ')[1] for a header that starts with 'Bearer ': the
\* atoms after the first space up to the next one.
SecondPiece(h) ==
  LET rest == SubSeq(h, 3, Len(h))
      stops == {i \in 1..Len(rest) : rest[i] = Lit(" ")}
      n == IF stops = {} THEN Len(rest) + 1
           ELSE CHOOSE i \in stops : \A j \in stops : i <= j
  IN  SubSeq(rest, 1, n - 1)

\* The token a piece of header text is: the token itself when the piece is
\* one, and otherwise text that is no JWT.
PieceToken(piece) ==
  IF Len(piece) = 1 /\ piece[1].tok # <<>> THEN piece[1].tok[1] ELSE JunkToken

\* ------------------------------------------------------------------ state

VARIABLES
  users,   \* the users collection: users[i] is the document with _id i
  now,     \* the clock, in days
  req,     \* per slot: the request being handled and its response
  inbox,   \* the body of the next request, where a specification fixes it
  server   \* the process: where server.js is, its environment, its connection

vars == <<users, now, req, inbox, server>>

\* The instants at which the system is observed: days 0 and 1 and the days
\* from the eve of the expiry of a token issued on day 0.
Instants == {t \in 0..MaxTime : t <= 1 \/ t >= SevenDays - 1}

\* A request body: every field the handlers read, and permissions, which a
\* client may send and no handler reads.
NoBody ==
  [ name |-> Undefined, email |-> Undefined, password |-> Undefined,
    role |-> Absent, rollNumber |-> Undefined, department |-> Absent,
    semester |-> Undefined, batch |-> Undefined, proctorId |-> Undefined,
    adminLevel |-> Absent, permissions |-> Absent ]

IdleRequest ==
  [ kind     |-> "idle",
    pc       |-> "idle",
    body     |-> NoBody,
    header   |-> HeaderAbsent,
    user     |-> <<>>,     \* the handler's document, once it has one
    modified |-> {},       \* the document's modified paths
    hashed   |-> FALSE,    \* whether bcrypt.hash was called for this request
    res      |-> <<>>,     \* the response, once sent
    userId   |-> 0,        \* req.userId
    userRole |-> "",       \* req.userRole
    next     |-> FALSE,    \* whether next() was called
    capability |-> "",     \* the capability a downstream handler asks for
    allowed  |-> FALSE ]   \* what hasPermission answered

\* User.findOne({ email }): the document with that email, if any.
FindOne(email) ==
  LET hits == {i \in 1..Len(users) : users[i].email = email}
  IN  IF hits = {} THEN <<>>
      ELSE <<users[CHOOSE i \in hits : \A j \in hits : i <= j]>>

\* A collection without the unique index.
DuplicateKeyNever(email) == FALSE

\* The unique index on email: whether an insert of this email is refused.
DuplicateKey(email) == \E i \in 1..Len(users) : users[i].email = email

\* A save that writes the whole document back.
UpdateOneWholeDocument(id, doc, paths) == [users EXCEPT ![id] = doc]

\* The collection after updateOne({_id}, {$set: the modified paths}).
UpdateOne(id, doc, paths) ==
  [users EXCEPT ![id] = [f \in DOMAIN @ |-> IF f \in paths THEN doc[f] ELSE @[f]]]

Free(s) == req[s].pc \in {"idle", "done"}

\* A new request is named after the first slot that is free.
CanStart(s) == Free(s) /\ \A x \in Slots : x < s => ~Free(x)

\* The handler sends its response and returns: its locals are gone.
Respond(s, r) ==
  [req[s] EXCEPT !.pc = "done", !.res = <<r>>, !.user = <<>>, !.modified = {}]


\* ------------------------------------------------------ process (server.js)

\* The process once server.js has run, the connection is up and the server
\* listens: MONGODB_URI and JWT_SECRET are set, NODE_ENV is not development.
Running ==
  [ pc |-> "listening", exit |-> "", listened |-> TRUE, mongo |-> "connected",
    uri |-> TRUE, secret |-> TRUE, dev |-> FALSE ]

\* The process before server.js runs, with or without MONGODB_URI (or
\* MONGO_URI) and JWT_SECRET in its environment.
Loading(uri, secret) ==
  [ pc |-> "loading", exit |-> "", listened |-> FALSE, mongo |-> "none",
    uri |-> uri, secret |-> secret, dev |-> FALSE ]

\* server.js without the guard of routes/auth on JWT_SECRET.
LoadNoSecretGuard ==
  /\ server.pc = "loading"
  /\ server' =
       IF ~server.uri THEN [server EXCEPT !.pc = "exited", !.exit = "fatal"]
       ELSE [server EXCEPT !.pc = "listening", !.listened = TRUE,
                           !.mongo = "connecting"]
  /\ UNCHANGED <<users, now, req, inbox>>

\* server.js, run to the end of the module in one turn of the event loop:
\* the guard on MONGODB_URI, mongoose.connect started, routes/auth required
\* (its guard on JWT_SECRET), app.listen.
Load ==
  /\ server.pc = "loading"
  /\ server' =
       IF ~server.uri THEN [server EXCEPT !.pc = "exited", !.exit = "fatal"]
       ELSE IF ~server.secret
         THEN [server EXCEPT !.pc = "exited", !.exit = "fatal",
                             !.mongo = "connecting"]
       ELSE [server EXCEPT !.pc = "listening", !.listened = TRUE,
                           !.mongo = "connecting"]
  /\ UNCHANGED <<users, now, req, inbox>>

\* mongoose.connect resolves.
ConnectResolves ==
  /\ server.pc = "listening" /\ server.mongo = "connecting"
  /\ server' = [server EXCEPT !.mongo = "connected"]
  /\ UNCHANGED <<users, now, req, inbox>>

\* mongoose.connect rejects (server selection times out): the catch callback
\* calls process.exit(1).
ConnectRejects ==
  /\ server.pc = "listening" /\ server.mongo = "connecting"
  /\ server' = [server EXCEPT !.pc = "exited", !.exit = "fatal",
                              !.mongo = "failed"]
  /\ UNCHANGED <<users, now, req, inbox>>

\* SIGINT or SIGTERM: the connection is closed and the process exits with 0.
Signal ==
  /\ server.pc = "listening"
  /\ server' = [server EXCEPT !.pc = "exited", !.exit = "signal",
                              !.mongo = "closed"]
  /\ UNCHANGED <<users, now, req, inbox>>

\* The process accepts requests and runs handlers.
Listening == server.pc = "listening"

\* Operations on the collection run (mongoose buffers them until then).
Connected == server.pc = "listening" /\ server.mongo = "connected"

\* ----------------------------------------------------------- POST /register

\* The handler up to its first await: destructuring and the base and
\* role-specific checks; then User.findOne is awaited.
RegisterStart(s, body) ==
  /\ CanStart(s)
  /\ LET r == [IdleRequest EXCEPT !.kind = "register", !.body = body]
         error == RegisterValidate(body)
     IN  req' = [req EXCEPT ![s] =
           IF error # "" THEN [r EXCEPT !.pc = "done",
                                        !.res = <<ErrorResponse(400, error)>>]
           ELSE [r EXCEPT !.pc = "findOne"]]
  /\ UNCHANGED <<users, now, inbox, server>>

\* findOne resolves: the duplicate check, then userData and new User(userData);
\* then user.save() is awaited.
RegisterFindOne(s) ==
  /\ req[s].kind = "register" /\ req[s].pc = "findOne"
  /\ LET existing == FindOne(NormalizeEmail(req[s].body.email))
         userData == BuildUserData(req[s].body)
     IN  req' = [req EXCEPT ![s] =
           IF existing # <<>>
             THEN Respond(s, ErrorResponse(400, "Email already registered"))
           ELSE [@ EXCEPT !.pc = "save",
                          !.user = <<NewUser(userData)>>,
                          !.modified = NewUserModified(userData)]]
  /\ UNCHANGED <<users, now, inbox, server>>

\* user.save() of the new document: the schema's validators, the pre('save')
\* hook, the insert under the unique index; then the token and the 201, or
\* the catch block.
RegisterSave(s) ==
  /\ req[s].kind = "register" /\ req[s].pc = "save"
  /\ \E salt \in Salts :
       LET doc == req[s].user[1]
           invalid == InvalidPaths(doc)
           hooked == PreSave(doc, req[s].modified, salt)
           saved == [hooked EXCEPT !._id = Len(users) + 1]
       IN  IF invalid # {}
             THEN /\ req' = [req EXCEPT ![s] =
                       Respond(s, RegisterCatch(ValidationError(invalid)))]
                  /\ users' = users
           ELSE IF DuplicateKey(hooked.email)
             THEN /\ req' = [req EXCEPT ![s] =
                       [Respond(s, RegisterCatch(DuplicateKeyError))
                          EXCEPT !.hashed = TRUE]]
                  /\ users' = users
           ELSE /\ users' = Append(users, saved)
                /\ req' = [req EXCEPT ![s] =
                     [Respond(s, TokenResponse(201,
                          generateToken(saved._id, saved.role, now),
                          safeUser(saved)))
                        EXCEPT !.hashed = TRUE]]
  /\ UNCHANGED <<now, inbox, server>>

\* -------------------------------------------------------------- POST /login

\* The handler up to its first await: the presence check.
LoginStart(s, body) ==
  /\ CanStart(s)
  /\ LET r == [IdleRequest EXCEPT !.kind = "login", !.body = body]
     IN  req' = [req EXCEPT ![s] =
           IF Falsy(body.email) \/ Falsy(body.password)
             THEN [r EXCEPT !.pc = "done",
                     !.res = <<ErrorResponse(400, "Email and password are required")>>]
           ELSE [r EXCEPT !.pc = "findOne"]]
  /\ UNCHANGED <<users, now, inbox, server>>

\* The lookup step without the active-status check.
LoginFindOneNoActiveCheck(s) ==
  /\ req[s].kind = "login" /\ req[s].pc = "findOne"
  /\ LET user == FindOne(NormalizeEmail(req[s].body.email))
     IN  req' = [req EXCEPT ![s] =
           IF user = <<>>
             THEN Respond(s, ErrorResponse(401, "Invalid credentials"))
           ELSE [@ EXCEPT !.pc = "compare", !.user = user]]
  /\ UNCHANGED <<users, now, inbox, server>>

\* The lookup step with a message of its own for an unknown email.
LoginFindOneTellsUnknown(s) ==
  /\ req[s].kind = "login" /\ req[s].pc = "findOne"
  /\ LET user == FindOne(NormalizeEmail(req[s].body.email))
     IN  req' = [req EXCEPT ![s] =
           IF user = <<>>
             THEN Respond(s, ErrorResponse(404, "User not found"))
           ELSE IF ~user[1].isActive
             THEN Respond(s, ErrorResponse(401,
                      "Account is deactivated. Contact admin."))
           ELSE [@ EXCEPT !.pc = "compare", !.user = user]]
  /\ UNCHANGED <<users, now, inbox, server>>

\* findOne resolves: the existence and active-status checks; then
\* bcrypt.compare is awaited.
LoginFindOne(s) ==
  /\ req[s].kind = "login" /\ req[s].pc = "findOne"
  /\ LET user == FindOne(NormalizeEmail(req[s].body.email))
     IN  req' = [req EXCEPT ![s] =
           IF user = <<>>
             THEN Respond(s, ErrorResponse(401, "Invalid credentials"))
           ELSE IF ~user[1].isActive
             THEN Respond(s, ErrorResponse(401,
                      "Account is deactivated. Contact admin."))
           ELSE [@ EXCEPT !.pc = "compare", !.user = user]]
  /\ UNCHANGED <<users, now, inbox, server>>

\* The compare step with its result ignored.
LoginCompareAnyPassword(s) ==
  /\ req[s].kind = "login" /\ req[s].pc = "compare"
  /\ LET user == req[s].user[1]
     IN  req' = [req EXCEPT ![s] =
           [@ EXCEPT !.pc = "save",
                     !.user = <<[user EXCEPT !.lastLogin = now]>>,
                     !.modified = {"lastLogin"}]]
  /\ UNCHANGED <<users, now, inbox, server>>

\* bcrypt.compare resolves: the password check, then lastLogin is set on the
\* document and user.save() is awaited.
LoginCompare(s) ==
  /\ req[s].kind = "login" /\ req[s].pc = "compare"
  /\ LET user == req[s].user[1]
         isMatch == BcryptCompare(req[s].body.password, user.password)
     IN  req' = [req EXCEPT ![s] =
           IF ~isMatch
             THEN Respond(s, ErrorResponse(401, "Invalid credentials"))
           ELSE [@ EXCEPT !.pc = "save",
                          !.user = <<[user EXCEPT !.lastLogin = now]>>,
                          !.modified = {"lastLogin"}]]
  /\ UNCHANGED <<users, now, inbox, server>>

\* The save of the loaded document with the password taken as modified: the
\* hook hashes the stored digest and the result is written.
LoginSaveRehashes(s) ==
  /\ req[s].kind = "login" /\ req[s].pc = "save"
  /\ \E salt \in Salts :
       LET modified == req[s].modified \cup {"password"}
           user == PreSave(req[s].user[1], modified, salt)
           paths == PreSaveModified(req[s].user[1], modified)
       IN  /\ users' = UpdateOne(user._id, user, paths)
           /\ req' = [req EXCEPT ![s] =
                [Respond(s, TokenResponse(200,
                     generateToken(user._id, user.role, now), safeUser(user)))
                   EXCEPT !.hashed = TRUE]]
  /\ UNCHANGED <<now, inbox, server>>

\* user.save() of the loaded document: the pre('save') hook, the update of
\* the modified paths; then the token and the response.
LoginSave(s) ==
  /\ req[s].kind = "login" /\ req[s].pc = "save"
  /\ \E salt \in Salts :
       LET user == PreSave(req[s].user[1], req[s].modified, salt)
           paths == PreSaveModified(req[s].user[1], req[s].modified)
       IN  /\ users' = UpdateOne(user._id, user, paths)
           /\ req' = [req EXCEPT ![s] =
                [Respond(s, TokenResponse(200,
                     generateToken(user._id, user.role, now), safeUser(user)))
                   EXCEPT !.hashed = "password" \in req[s].modified]]
  /\ UNCHANGED <<now, inbox, server>>

\* ------------------------------------------------ failing awaited operations

\* The error of a store operation that fails (network, timeout).
StoreError == [code |-> 0, name |-> "MongoNetworkError", paths |-> {}]

\* The error of a bcrypt call that fails.
HasherError == [code |-> 0, name |-> "Error", paths |-> {}]

\* error.message
ErrorMessage(error) ==
  IF error.name = "MongoNetworkError" THEN "connection timed out"
  ELSE IF error.name = "ValidationError" THEN ValidationMessage(error.paths)
  ELSE IF error.code = 11000 THEN "E11000 duplicate key error"
  ELSE "bcrypt failed"

\* The detail member of the 500 body: error.message when NODE_ENV is
\* development, and otherwise undefined, which JSON leaves out.
WithDetail(r, error) ==
  IF r.status = 500 /\ server.dev
    THEN [status |-> r.status, error |-> r.error, token |-> r.token,
          user |-> r.user, detail |-> ErrorMessage(error)]
  ELSE r

\* User.findOne rejects in the register handler: the catch block.
RegisterFindOneFails(s) ==
  /\ req[s].kind = "register" /\ req[s].pc = "findOne"
  /\ req' = [req EXCEPT ![s] =
       Respond(s, WithDetail(RegisterCatch(StoreError), StoreError))]
  /\ UNCHANGED <<users, now, inbox, server>>

\* user.save() of the new document rejects after the validators passed, in
\* the hook's bcrypt calls or at the insert: the catch block.
RegisterSaveFails(s) ==
  /\ req[s].kind = "register" /\ req[s].pc = "save"
  /\ InvalidPaths(req[s].user[1]) = {}
  /\ \E error \in {HasherError, StoreError} :
       req' = [req EXCEPT ![s] =
         [Respond(s, WithDetail(RegisterCatch(error), error))
            EXCEPT !.hashed = TRUE]]
  /\ UNCHANGED <<users, now, inbox, server>>

\* User.findOne rejects in the login handler: the catch block.
LoginFindOneFails(s) ==
  /\ req[s].kind = "login" /\ req[s].pc = "findOne"
  /\ req' = [req EXCEPT ![s] =
       Respond(s, WithDetail(LoginCatch(StoreError), StoreError))]
  /\ UNCHANGED <<users, now, inbox, server>>

\* bcrypt.compare rejects: the catch block.
LoginCompareFails(s) ==
  /\ req[s].kind = "login" /\ req[s].pc = "compare"
  /\ req' = [req EXCEPT ![s] =
       Respond(s, WithDetail(LoginCatch(HasherError), HasherError))]
  /\ UNCHANGED <<users, now, inbox, server>>

\* A failed save of the loaded document that sends the handler back to the
\* password check.
LoginSaveRetries(s) ==
  /\ req[s].kind = "login" /\ req[s].pc = "save"
  /\ req' = [req EXCEPT ![s] = [@ EXCEPT !.pc = "compare"]]
  /\ UNCHANGED <<users, now, inbox, server>>

\* user.save() of the loaded document rejects: nothing is written, the catch
\* block.
LoginSaveFails(s) ==
  /\ req[s].kind = "login" /\ req[s].pc = "save"
  /\ req' = [req EXCEPT ![s] =
       Respond(s, WithDetail(LoginCatch(StoreError), StoreError))]
  /\ UNCHANGED <<users, now, inbox, server>>

\* ----------------------------------------------------------- authMiddleware

\* The gate with a lookup of the account added: a token of a deactivated
\* account is refused.
AuthMiddlewareChecksActive(s, authHeader) ==
  /\ Free(s)
  /\ LET r == [IdleRequest EXCEPT !.kind = "auth", !.pc = "done",
                                  !.header = authHeader]
         token == PieceToken(SecondPiece(authHeader))
         verified == JwtVerify(token, JWT_SECRET, now)
         id == verified.decoded.userId
     IN  req' = [req EXCEPT ![s] =
           IF authHeader = HeaderAbsent \/ authHeader = <<>>
                \/ ~StartsWithBearer(authHeader)
             THEN [r EXCEPT !.res = <<ErrorResponse(401, "No token provided")>>]
           ELSE IF SecondPiece(authHeader) = <<>>
             THEN [r EXCEPT !.res =
                     <<ErrorResponse(401, "Malformed authorization header")>>]
           ELSE IF ~verified.ok
                     \/ (id \in 1..Len(users) /\ ~users[id].isActive)
             THEN [r EXCEPT !.res =
                     <<ErrorResponse(401, "Invalid or expired token")>>]
           ELSE [r EXCEPT !.userId = verified.decoded.userId,
                          !.userRole = verified.decoded.role,
                          !.next = TRUE]]
  /\ UNCHANGED <<users, now, inbox, server>>

\* authMiddleware(req, res, next): synchronous, one step.
AuthMiddleware(s, authHeader) ==
  /\ Free(s)
  /\ LET r == [IdleRequest EXCEPT !.kind = "auth", !.pc = "done",
                                  !.header = authHeader]
         token == PieceToken(SecondPiece(authHeader))
         verified == JwtVerify(token, JWT_SECRET, now)
     IN  req' = [req EXCEPT ![s] =
           IF authHeader = HeaderAbsent \/ authHeader = <<>>
                \/ ~StartsWithBearer(authHeader)
             THEN [r EXCEPT !.res = <<ErrorResponse(401, "No token provided")>>]
           ELSE IF SecondPiece(authHeader) = <<>>
             THEN [r EXCEPT !.res =
                     <<ErrorResponse(401, "Malformed authorization header")>>]
           ELSE IF ~verified.ok
             THEN [r EXCEPT !.res =
                     <<ErrorResponse(401, "Invalid or expired token")>>]
           ELSE [r EXCEPT !.userId = verified.decoded.userId,
                          !.userRole = verified.decoded.role,
                          !.next = TRUE]]
  /\ UNCHANGED <<users, now, inbox, server>>

\* ------------------------------------------------- outside the two handlers

\* A handler behind the gate asks whether the account may use a capability.
CheckPermission(s, i, permission) ==
  /\ Free(s)
  /\ i \in 1..Len(users)
  /\ req' = [req EXCEPT ![s] =
       [IdleRequest EXCEPT !.kind = "check", !.pc = "done", !.userId = i,
                           !.capability = permission,
                           !.allowed = HasPermission(users[i], permission)]]
  /\ UNCHANGED <<users, now, inbox, server>>

\* Time passes to the next instant.
Tick ==
  /\ \E t \in Instants : t > now
  /\ now' = CHOOSE t \in Instants : t > now /\ \A u \in Instants : u > now => t <= u
  /\ UNCHANGED <<users, req, inbox, server>>

\* An administrative flow activates or deactivates an account.
SetActive(i, active) ==
  /\ i \in 1..Len(users)
  /\ users[i].isActive # active
  /\ users' = [users EXCEPT ![i].isActive = active]
  /\ UNCHANGED <<now, req, inbox, server>>

\* An administrative flow loads an admin's document, sets adminLevel and
\* saves it: the pre('save') hook runs, the modified paths are written.
ChangeAdminLevel(i, level) ==
  /\ i \in 1..Len(users)
  /\ users[i].role = "admin"
  /\ users[i].adminLevel # level
  /\ \E salt \in Salts :
       LET doc == [users[i] EXCEPT !.adminLevel = level]
           user == PreSave(doc, {"adminLevel"}, salt)
       IN  users' = UpdateOne(i, user, PreSaveModified(doc, {"adminLevel"}))
  /\ UNCHANGED <<now, req, inbox, server>>


\* ------------------------------------------------------------------ inputs

Secret == <<"s", "e", "c", "r", "e", "t">>

OtherSecret == <<"S", "e", "c", "r", "e", "t">>

ShortSecret == <<"s", "e", "c", "r", "e">>

StudentBody(email) ==
  [NoBody EXCEPT !.name = <<"n", " ">>, !.email = email, !.password = Secret,
                 !.role = "student", !.rollNumber = <<"r", "1">>,
                 !.department = "CSE", !.semester = <<"3">>,
                 !.batch = <<"2", "4">>]

ProctorBody(email) ==
  [NoBody EXCEPT !.name = <<"n">>, !.email = email, !.password = Secret,
                 !.role = "proctor", !.proctorId = <<"p", "1">>,
                 !.department = "ECE"]

AdminBody(email, adminLevel) ==
  [NoBody EXCEPT !.name = <<"n">>, !.email = email, !.password = Secret,
                 !.role = "admin", !.department = "IT",
                 !.adminLevel = adminLevel]

\* The bodies clients send to POST /register.
RegisterBodies ==
  { StudentBody(<<"a">>), StudentBody(<<" ", "A">>),
    [StudentBody(<<"a">>) EXCEPT !.department = "XYZ"],
    [StudentBody(<<"a">>) EXCEPT !.role = "teacher"],
    [AdminBody(<<"b">>, Absent) EXCEPT !.permissions = "all"],
    AdminBody(<<"B">>, "super") }

\* The bodies clients send to POST /login.
LoginBodies ==
  { [NoBody EXCEPT !.email = <<"A", " ">>, !.password = Secret],
    [NoBody EXCEPT !.email = <<"a">>, !.password = OtherSecret],
    [NoBody EXCEPT !.email = <<"b">>, !.password = Secret],
    [NoBody EXCEPT !.email = <<"c">>, !.password = Secret],
    [NoBody EXCEPT !.email = <<"a">>] }

\* The bodies of the requests that run concurrently.
ConcurrentBodies ==
  RegisterBodies
    \cup {b \in LoginBodies : NormalizeEmail(b.email) = <<"a">>
                               /\ b.password # Undefined}

\* The bodies of the requests that obtain the tokens shown to the gate.
GateBodies ==
  { StudentBody(<<"a">>), AdminBody(<<"B">>, "super"),
    [NoBody EXCEPT !.email = <<"A", " ">>, !.password = Secret] }

\* The tokens clients hold: those of the responses still in the slots, and
\* those they have sent in a header as the server issued them.
HeldTokens ==
  {req[s].res[1].token[1] :
     s \in {x \in Slots : req[x].res # <<>> /\ req[x].res[1].token # <<>>}}
  \cup {req[s].header[3].tok[1] :
     s \in {x \in Slots :
              /\ Len(req[x].header) >= 3
              /\ req[x].header[3].tok # <<>>
              /\ req[x].header[3].tok[1].sig =
                   [key |-> JWT_SECRET, over |-> req[x].header[3].tok[1].payload]}}

\* The Authorization headers clients send: none, text without a token, and
\* for each held token the token under the Bearer scheme, under another
\* scheme, after two spaces, followed by more text, with its role or expiry
\* rewritten, and re-signed with another key.
AuthHeaders ==
  { HeaderAbsent, <<>>, <<Lit("Bearer")>>, <<Lit("Bearer"), Lit(" ")>>,
    <<Lit("Bearer"), Lit(" "), Lit("junk")>> }
    \cup UNION { { <<Lit("Bearer"), Lit(" "), Tok(t)>>,
                   <<Lit("Basic"), Lit(" "), Tok(t)>>,
                   <<Lit("Bearer"), Lit(" "), Lit(" "), Tok(t)>>,
                   <<Lit("Bearer"), Lit(" "), Tok(t), Lit(" "), Lit("junk")>>,
                   <<Lit("Bearer"), Lit(" "), Tok([t EXCEPT !.payload.role = "admin"])>>,
                   <<Lit("Bearer"), Lit(" "),
                     Tok([t EXCEPT !.payload.exp = @ + SevenDays])>>,
                   <<Lit("Bearer"), Lit(" "),
                     Tok(JwtSign(t.payload, "other", SevenDays, now))>> }
               : t \in HeldTokens }

\* ----------------------------------------------------------- specification

Init ==
  /\ users = <<>>
  /\ now = 0
  /\ req = [s \in Slots |-> IdleRequest]
  /\ inbox = NoBody
  /\ server = Running

\* The register and login handlers, their requests handled one after
\* another: at each await of a handler the clock and the administrative
\* flows may step.
Next ==
  \/ \E body \in RegisterBodies : RegisterStart(1, body)
  \/ RegisterFindOne(1)
  \/ RegisterSave(1)
  \/ \E body \in LoginBodies : LoginStart(1, body)
  \/ LoginFindOne(1)
  \/ LoginCompare(1)
  \/ LoginSave(1)
  \/ Tick
  \/ \E i \in 1..Len(users), active \in BOOLEAN : SetActive(i, active)
  \/ \E i \in 1..Len(users), level \in AdminLevels : ChangeAdminLevel(i, level)

Spec == Init /\ [][Next]_vars

\* Register and login requests handled concurrently, every interleaving of
\* their steps.
NextConcurrent ==
  \/ \E s \in Slots, body \in ConcurrentBodies \cap RegisterBodies :
       RegisterStart(s, body)
  \/ \E s \in Slots : RegisterFindOne(s)
  \/ \E s \in Slots : RegisterSave(s)
  \/ \E s \in Slots, body \in ConcurrentBodies \cap LoginBodies :
       LoginStart(s, body)
  \/ \E s \in Slots : LoginFindOne(s)
  \/ \E s \in Slots : LoginCompare(s)
  \/ \E s \in Slots : LoginSave(s)

SpecConcurrent == Init /\ [][NextConcurrent]_vars

\* The gate beside the handlers that issue tokens: register and login
\* requests in slot 1, requests to protected routes in slot 2, the clock
\* and account deactivation in between.
NextGate ==
  \/ \E body \in GateBodies \cap RegisterBodies : RegisterStart(1, body)
  \/ RegisterFindOne(1)
  \/ RegisterSave(1)
  \/ \E body \in GateBodies \cap LoginBodies : LoginStart(1, body)
  \/ LoginFindOne(1)
  \/ LoginCompare(1)
  \/ LoginSave(1)
  \/ \E h \in AuthHeaders : AuthMiddleware(2, h)
  \/ Tick
  \/ \E i \in 1..Len(users), active \in BOOLEAN : SetActive(i, active)

SpecGate == Init /\ [][NextGate]_vars

\* The bodies the register handler is tried on: every combination of these
\* values of the fields it reads.
ValidateBodies ==
  { [ name |-> n, email |-> e, password |-> p, role |-> r, rollNumber |-> rn,
      department |-> d, semester |-> sem, batch |-> b, proctorId |-> pid,
      adminLevel |-> al, permissions |-> Absent ] :
      n \in {Undefined, <<" ">>, <<"n">>},
      e \in {Undefined, <<" ">>, <<"A", " ">>, <<"b">>},
      p \in {Undefined, ShortSecret, Secret},
      r \in {Absent, "teacher", "student", "proctor", "admin"},
      rn \in {Undefined, <<"r", "1">>},
      d \in {Absent, "", "CSE", "XYZ"},
      sem \in {Undefined, <<"3">>, <<"9">>},
      b \in {Undefined, <<"2", "4">>},
      pid \in {Undefined, <<"p", "1">>},
      al \in {Absent, "department", "bogus"} }

\* The document a registration of this body has stored, as the first one.
Registered(body) ==
  LET userData == BuildUserData(body)
      salt == CHOOSE x \in Salts : TRUE
  IN  [PreSave(NewUser(userData), NewUserModified(userData), salt)
         EXCEPT !._id = 1]

\* One register request, its body fixed at the start, against a collection
\* that is empty or holds one registered student.
InitValidate ==
  /\ users \in {<<>>, <<Registered(StudentBody(<<"a">>))>>}
  /\ now = 0
  /\ req = [s \in Slots |-> IdleRequest]
  /\ inbox \in ValidateBodies
  /\ server = Running

NextValidate ==
  \/ RegisterStart(1, inbox)
  \/ RegisterFindOne(1)
  \/ RegisterSave(1)

SpecValidate == InitValidate /\ [][NextValidate]_vars

\* The documents hasPermission is tried on: every role, adminLevel and
\* setting of the six flags, as any flow may have stored them.
PermissionSubjects ==
  { [Registered(StudentBody(<<"a">>)) EXCEPT
       !.role = r, !.adminLevel = al, !.permissions = perms] :
      r \in Roles, al \in AdminLevels, perms \in [Capabilities -> BOOLEAN] }

InitHasPermission ==
  /\ users \in {<<u>> : u \in PermissionSubjects}
  /\ now = 0
  /\ req = [s \in Slots |-> IdleRequest]
  /\ inbox = NoBody
  /\ server = Running

NextHasPermission ==
  \E permission \in Capabilities : CheckPermission(1, 1, permission)

SpecHasPermission == InitHasPermission /\ [][NextHasPermission]_vars

\* The handlers of Next with every awaited operation liable to fail, with
\* NODE_ENV development or not.
InitFaults ==
  /\ users = <<>>
  /\ now = 0
  /\ req = [s \in Slots |-> IdleRequest]
  /\ inbox = NoBody
  /\ server \in {[Running EXCEPT !.dev = dev] : dev \in BOOLEAN}

NextFaults ==
  \/ \E body \in RegisterBodies : RegisterStart(1, body)
  \/ RegisterFindOne(1)
  \/ RegisterFindOneFails(1)
  \/ RegisterSave(1)
  \/ RegisterSaveFails(1)
  \/ \E body \in LoginBodies : LoginStart(1, body)
  \/ LoginFindOne(1)
  \/ LoginFindOneFails(1)
  \/ LoginCompare(1)
  \/ LoginCompareFails(1)
  \/ LoginSave(1)
  \/ LoginSaveFails(1)
  \/ Tick
  \/ \E i \in 1..Len(users), active \in BOOLEAN : SetActive(i, active)
  \/ \E i \in 1..Len(users), level \in AdminLevels : ChangeAdminLevel(i, level)

SpecFaults == InitFaults /\ [][NextFaults]_vars

\* The bodies of the requests whose termination is followed.
TerminateBodies ==
  { StudentBody(<<"a">>), [StudentBody(<<"a">>) EXCEPT !.department = "XYZ"],
    [StudentBody(<<"a">>) EXCEPT !.role = "teacher"],
    [NoBody EXCEPT !.email = <<"A", " ">>, !.password = Secret],
    [NoBody EXCEPT !.email = <<"a">>, !.password = OtherSecret],
    [NoBody EXCEPT !.email = <<"a">>] }

\* Register and login requests in slot 1 with every awaited operation
\* liable to fail, requests to protected routes in slot 2, accounts
\* deactivated in between.
NextTerminate ==
  \/ \E body \in TerminateBodies \cap RegisterBodies : RegisterStart(1, body)
  \/ RegisterFindOne(1)
  \/ RegisterFindOneFails(1)
  \/ RegisterSave(1)
  \/ RegisterSaveFails(1)
  \/ \E body \in TerminateBodies \cap LoginBodies : LoginStart(1, body)
  \/ LoginFindOne(1)
  \/ LoginFindOneFails(1)
  \/ LoginCompare(1)
  \/ LoginCompareFails(1)
  \/ LoginSave(1)
  \/ LoginSaveFails(1)
  \/ \E h \in AuthHeaders : AuthMiddleware(2, h)
  \/ \E i \in 1..Len(users), active \in BOOLEAN : SetActive(i, active)

SpecTerminate == InitFaults /\ [][NextTerminate]_vars

\* The awaited operation of slot s's handler settles and the handler runs
\* on to its next await or to its response.
Continue(s) ==
  \/ RegisterFindOne(s) \/ RegisterFindOneFails(s)
  \/ RegisterSave(s) \/ RegisterSaveFails(s)
  \/ LoginFindOne(s) \/ LoginFindOneFails(s)
  \/ LoginCompare(s) \/ LoginCompareFails(s)
  \/ LoginSave(s) \/ LoginSaveFails(s)

\* Every awaited operation settles: the store's operations resolve or time
\* out, bcrypt's resolve or throw, and the event loop then runs the handler.
SpecTerminateFair == SpecTerminate /\ WF_vars(Continue(1))

\* The document a registration of this body stored on that day under that
\* _id, with the createdAt the schema's default gave it.
Stored(body, id, createdAt) ==
  LET doc == [Registered(body) EXCEPT !._id = id]
  IN  [f \in DOMAIN doc \cup {"createdAt"} |->
         IF f = "createdAt" THEN createdAt ELSE doc[f]]

\* Login requests against a collection that holds a student and an admin
\* registered on day 0, every awaited operation liable to fail, while the
\* clock and the administrative flows step.
InitLoginFrame ==
  /\ users = << Stored(StudentBody(<<"a">>), 1, 0),
                Stored(AdminBody(<<"B">>, "super"), 2, 0) >>
  /\ now = 0
  /\ req = [s \in Slots |-> IdleRequest]
  /\ inbox = NoBody
  /\ server = Running

NextLoginFrame ==
  \/ \E body \in LoginBodies : LoginStart(1, body)
  \/ LoginFindOne(1)
  \/ LoginFindOneFails(1)
  \/ LoginCompare(1)
  \/ LoginCompareFails(1)
  \/ LoginSave(1)
  \/ LoginSaveFails(1)
  \/ Tick
  \/ \E i \in 1..Len(users), active \in BOOLEAN : SetActive(i, active)
  \/ \E i \in 1..Len(users), level \in AdminLevels : ChangeAdminLevel(i, level)

SpecLoginFrame == InitLoginFrame /\ [][NextLoginFrame]_vars

\* Register bodies with valid name, email and password and every
\* combination of these values of the role-specific fields: absent, empty,
\* blank, valid, and for the semester zero and text that is no number.
RequiredBodies ==
  { [ name |-> <<"n">>, email |-> <<"c">>, password |-> Secret, role |-> r,
      rollNumber |-> rn, department |-> d, semester |-> sem, batch |-> b,
      proctorId |-> pid, adminLevel |-> Absent, permissions |-> Absent ] :
      r \in Roles,
      rn \in {Undefined, <<>>, <<" ">>, <<"r", "1">>},
      d \in {Absent, "", "CSE"},
      sem \in {Undefined, <<>>, <<" ">>, <<"0">>, <<"3">>, <<"x">>},
      b \in {Undefined, <<>>, <<" ">>, <<"2", "4">>},
      pid \in {Undefined, <<>>, <<" ">>, <<"p", "1">>} }

\* One register request with such a body against an empty collection.
InitRequired ==
  /\ users = <<>>
  /\ now = 0
  /\ req = [s \in Slots |-> IdleRequest]
  /\ inbox \in RequiredBodies
  /\ server = Running

SpecRequired == InitRequired /\ [][NextValidate]_vars

\* The bodies of the requests sent while the process starts.
StartupBodies ==
  { StudentBody(<<"a">>),
    [NoBody EXCEPT !.email = <<"A", " ">>, !.password = Secret] }

\* The process from its start, in every environment: server.js runs, the
\* connection resolves or rejects, a signal may arrive, and once the server
\* listens requests are handled, their operations on the collection once
\* the connection is up.
InitStartup ==
  /\ users = <<>>
  /\ now = 0
  /\ req = [s \in Slots |-> IdleRequest]
  /\ inbox = NoBody
  /\ server \in {Loading(uri, secret) : uri \in BOOLEAN, secret \in BOOLEAN}

NextStartup ==
  \/ Load
  \/ ConnectResolves
  \/ ConnectRejects
  \/ Signal
  \/ Listening /\ \E body \in StartupBodies \cap RegisterBodies :
                    RegisterStart(1, body)
  \/ Connected /\ RegisterFindOne(1)
  \/ Connected /\ RegisterSave(1)
  \/ Listening /\ \E body \in StartupBodies \cap LoginBodies :
                    LoginStart(1, body)
  \/ Connected /\ LoginFindOne(1)
  \/ Listening /\ LoginCompare(1)
  \/ Connected /\ LoginSave(1)
  \/ Listening /\ \E h \in AuthHeaders : AuthMiddleware(2, h)

SpecStartup == InitStartup /\ [][NextStartup]_vars

\* ------------------------------------------------------------------ claims

\* The records a lookup by the normalized email of slot s's body matches.
Matching(s) ==
  {i \in 1..Len(users) : users[i].email = NormalizeEmail(req[s].body.email)}

\* Slot s holds a register request that ended with 201.
Created(s) ==
  /\ req[s].kind = "register" /\ req[s].pc = "done"
  /\ req[s].res[1].status = 201

\* Slot s holds a register request that passed the pre-check, reached the
\* insert and was refused there as a duplicate.
LostRace(s) ==
  /\ req[s].kind = "register" /\ req[s].pc = "done" /\ req[s].hashed
  /\ req[s].res = <<ErrorResponse(400, "Email already registered")>>

\* C1: in every reachable state of concurrently handled register (and login)
\* requests the collection holds at most one record per normalized email,
\* every stored email is in normalized form, and no two requests for the
\* same normalized email have both ended with a record created.
C1_OneRecordPerEmail ==
  /\ \A i, j \in 1..Len(users) :
       NormalizeEmail(users[i].email) = NormalizeEmail(users[j].email) => i = j
  /\ \A i \in 1..Len(users) : users[i].email = NormalizeEmail(users[i].email)
  /\ \A s, t \in Slots :
       (s # t /\ Created(s) /\ Created(t))
         => NormalizeEmail(req[s].body.email) # NormalizeEmail(req[t].body.email)

\* Two requests for one normalized email, written differently, both passed
\* the pre-check: one created the record, the other lost at the insert.
C1_Witness ==
  \E s, t \in Slots :
    /\ s # t /\ Created(s) /\ LostRace(t)
    /\ req[s].body.email # req[t].body.email
    /\ NormalizeEmail(req[s].body.email) = NormalizeEmail(req[t].body.email)

\* Slot s's register request, past the field validation, takes its step.
RegisterDecides(s) ==
  /\ req[s].kind = "register" /\ req[s].pc \in {"findOne", "save"}
  /\ req'[s] # req[s]

\* C2 as claimed: a register request past the field validation whose
\* normalized email is that of an existing record, at its pre-check or at
\* its insert, ends with 400 "Email already registered" and leaves the
\* collection unchanged.
C2_Original ==
  [][\A s \in Slots :
       (RegisterDecides(s) /\ Matching(s) # {})
         => /\ req'[s].pc = "done"
            /\ req'[s].res = <<ErrorResponse(400, "Email already registered")>>
            /\ users' = users]_vars

\* C2 as amended: such a request ends with status 400 and no token and leaves
\* the collection unchanged; the error is "Email already registered" when
\* the pre-check finds the record, and at the insert when the document
\* passes the schema's validators (then the insert is refused with code
\* 11000); a document that fails them ends with the validators' message.
C2_Amended ==
  [][\A s \in Slots :
       (RegisterDecides(s) /\ Matching(s) # {})
         => /\ req'[s].pc = "done"
            /\ req'[s].res[1].status = 400
            /\ req'[s].res[1].token = <<>>
            /\ users' = users
            /\ (req[s].pc = "findOne" \/ InvalidPaths(req[s].user[1]) = {})
                 => req'[s].res = <<ErrorResponse(400, "Email already registered")>>
            /\ (req[s].pc = "save" /\ InvalidPaths(req[s].user[1]) # {})
                 => req'[s].res =
                      <<ErrorResponse(400,
                          ValidationMessage(InvalidPaths(req[s].user[1])))>>]_vars

\* A request lost the race at the insert and was answered as a duplicate.
C2_Witness == \E s \in Slots : LostRace(s) /\ Matching(s) # {}

\* The checks of the registration gate in the claimed order, each with
\* whether the body fails it and its message.
ClaimedChecks(b) ==
  << [fails |-> Falsy(b.name) \/ Trim(b.name) = <<>>,
      msg |-> "Name is required"],
     [fails |-> Falsy(b.email) \/ Trim(b.email) = <<>>,
      msg |-> "Email is required"],
     [fails |-> b.password = Undefined \/ Len(b.password) < 6,
      msg |-> "Password must be at least 6 characters"],
     [fails |-> b.role \notin {"student", "proctor", "admin"},
      msg |-> "Invalid role"],
     [fails |-> b.role = "student" /\ Falsy(b.rollNumber),
      msg |-> "Roll number is required"],
     [fails |-> b.role = "student" /\ FalsyStr(b.department),
      msg |-> "Department is required"],
     [fails |-> b.role = "student" /\ Falsy(b.semester),
      msg |-> "Semester is required"],
     [fails |-> b.role = "student" /\ Falsy(b.batch),
      msg |-> "Batch is required"],
     [fails |-> b.role = "proctor" /\ Falsy(b.proctorId),
      msg |-> "Proctor ID is required"],
     [fails |-> b.role = "proctor" /\ FalsyStr(b.department),
      msg |-> "Department is required"],
     [fails |-> b.role = "admin" /\ FalsyStr(b.department),
      msg |-> "Department is required"] >>

\* The message of the first claimed check the body fails, "" when none.
FirstFailed(b) ==
  LET cs == ClaimedChecks(b)
      failing == {i \in 1..Len(cs) : cs[i].fails}
  IN  IF failing = {} THEN ""
      ELSE cs[CHOOSE i \in failing : \A j \in failing : i <= j].msg

\* Slot s ends, in this step, with 400 and this message, without the hasher
\* having run, a record stored or a token issued.
RejectedWith(s, msg) ==
  /\ req'[s].pc = "done"
  /\ req'[s].res = <<ErrorResponse(400, msg)>>
  /\ ~req'[s].hashed
  /\ users' = users

\* C3: a register request is answered with 400 and the message of the first
\* check it fails, in the order name, email, password, role, role-specific
\* fields, then email uniqueness; the hasher does not run, nothing is stored
\* and no token is issued.  A body that fails no field check goes on to the
\* lookup, and one whose email is free goes on to the save.
C3_FirstFailingCheck ==
  [][\A s \in Slots :
       /\ (Free(s) /\ req'[s].kind = "register" /\ req'[s] # req[s])
            => IF FirstFailed(req'[s].body) # ""
                 THEN RejectedWith(s, FirstFailed(req'[s].body))
                 ELSE req'[s].pc = "findOne"
       /\ (req[s].kind = "register" /\ req[s].pc = "findOne" /\ req'[s] # req[s])
            => IF Matching(s) # {}
                 THEN RejectedWith(s, "Email already registered")
                 ELSE req'[s].pc = "save" /\ users' = users]_vars

\* A body that fails the password check and the role check was answered
\* with the password message.
C3_Witness ==
  \E s \in Slots :
    /\ req[s].kind = "register" /\ req[s].pc = "done" /\ ~req[s].hashed
    /\ ~ClaimedChecks(req[s].body)[1].fails
    /\ ~ClaimedChecks(req[s].body)[2].fails
    /\ ClaimedChecks(req[s].body)[3].fails
    /\ ClaimedChecks(req[s].body)[4].fails
    /\ req[s].res =
         <<ErrorResponse(400, "Password must be at least 6 characters")>>

\* The permission table of the design, row by row.
TableRow(level) ==
  CASE level = "super" ->
         [manageCalendar |-> TRUE, manageUsers |-> TRUE, viewAnalytics |-> TRUE,
          manageProctors |-> TRUE, manageAdmins |-> TRUE, exportReports |-> TRUE]
    [] level = "department" ->
         [manageCalendar |-> TRUE, manageUsers |-> TRUE, viewAnalytics |-> TRUE,
          manageProctors |-> TRUE, manageAdmins |-> FALSE, exportReports |-> TRUE]
    [] level = "limited" ->
         [manageCalendar |-> TRUE, manageUsers |-> FALSE, viewAnalytics |-> TRUE,
          manageProctors |-> FALSE, manageAdmins |-> FALSE, exportReports |-> FALSE]

\* C4: in every reachable state every admin record has an adminLevel of the
\* table and exactly that row as its permissions, whatever the request body
\* carried besides role and adminLevel; the user returned by a registration
\* of an admin shows the row of the level asked for (limited when none).
C4_PermissionsFollowLevel ==
  /\ \A i \in 1..Len(users) :
       users[i].role = "admin"
         => /\ users[i].adminLevel \in {"super", "department", "limited"}
            /\ users[i].permissions = TableRow(users[i].adminLevel)
  /\ \A s \in Slots :
       (Created(s) /\ req[s].body.role = "admin")
         => req[s].res[1].user[1].permissions =
              TableRow(IF req[s].body.adminLevel = Absent THEN "limited"
                       ELSE req[s].body.adminLevel)

\* An admin registered with a permissions field in the body, had the level
\* changed to department and has logged in.
C4_Witness ==
  \E i \in 1..Len(users) :
    /\ users[i].role = "admin" /\ users[i].adminLevel = "department"
    /\ users[i].lastLogin # NoDate
    /\ ~users[i].permissions["manageAdmins"]

\* C5: hasPermission answers false for every capability on a student or
\* proctor record, whatever its flags and adminLevel, and on an admin record
\* answers the stored flag.
C5_HasPermission ==
  \A s \in Slots :
    req[s].kind = "check"
      => LET u == users[req[s].userId]
         IN  /\ u.role \in {"student", "proctor"} => ~req[s].allowed
             /\ u.role = "admin"
                  => (req[s].allowed <=> u.permissions[req[s].capability])

\* A student record with a flag set was asked about and refused.
C5_Witness ==
  \E s \in Slots :
    /\ req[s].kind = "check" /\ ~req[s].allowed
    /\ users[req[s].userId].role = "student"
    /\ users[req[s].userId].permissions[req[s].capability]

\* Slot s's login request takes a step.
LoginStep(s) == req[s].kind = "login" /\ req[s].pc # "done" /\ req'[s] # req[s]

\* Slot s's step sends a response with a token.
IssuesToken(s) ==
  req'[s] # req[s] /\ req'[s].res # <<>> /\ req'[s].res[1].token # <<>>

\* C6: a login request is answered with a token only from its save step, for
\* the record its normalized email matched, whose stored digest its password
\* verifies; that step writes the lastLogin the request took from the clock
\* and binds the record's id and role into the token.  The lookup goes on to
\* the password check exactly when a record matches the normalized email and
\* is active, the password check goes on to the save exactly when the
\* password verifies, and the save is answered with 200 and a token: any
\* spelling of a registered email with the right password on an active
\* account succeeds.
C6_LoginSucceedsOnlyVerified ==
  [][\A s \in Slots :
       LoginStep(s)
         => /\ IssuesToken(s)
                 => /\ req[s].pc = "save"
                    /\ LET id == req[s].user[1]._id
                           t == req'[s].res[1].token[1]
                       IN  /\ id \in Matching(s)
                           /\ BcryptCompare(req[s].body.password, users[id].password)
                           /\ req[s].user[1].lastLogin \in 0..now
                           /\ users'[id].lastLogin = req[s].user[1].lastLogin
                           /\ t.payload.userId = id
                           /\ t.payload.role = users'[id].role
            /\ req[s].pc = "findOne"
                 => (req'[s].pc = "compare"
                       <=> \E i \in Matching(s) : users[i].isActive)
            /\ req[s].pc = "compare"
                 => /\ req'[s].pc = "save"
                         <=> BcryptCompare(req[s].body.password,
                                           users[req[s].user[1]._id].password)
                    /\ req'[s].pc = "save" => req'[s].user[1].lastLogin = now
            /\ req[s].pc = "save"
                 => /\ IssuesToken(s)
                    /\ req'[s].res[1].status = 200]_vars

\* A login with another spelling of the registered email succeeded after
\* day 0, and the record's lastLogin is that day.
C6_Witness ==
  \E s \in Slots :
    /\ req[s].kind = "login" /\ req[s].pc = "done"
    /\ req[s].res[1].status = 200
    /\ \E i \in Matching(s) :
         /\ users[i].email # req[s].body.email
         /\ users[i].lastLogin = now /\ now > 0

\* C7: a login whose lookup finds a deactivated record is answered with 401
\* "Account is deactivated. Contact admin.", whatever the password; no token
\* is issued and the collection, lastLogin included, is unchanged.
C7_DeactivatedRejected ==
  [][\A s \in Slots :
       (LoginStep(s) /\ req[s].pc = "findOne"
          /\ \E i \in Matching(s) : ~users[i].isActive)
         => /\ req'[s].pc = "done"
            /\ req'[s].res =
                 <<ErrorResponse(401, "Account is deactivated. Contact admin.")>>
            /\ users' = users]_vars

\* A login with the right password for a deactivated account was refused.
C7_Witness ==
  \E s \in Slots :
    /\ req[s].kind = "login" /\ req[s].pc = "done"
    /\ req[s].res = <<ErrorResponse(401, "Account is deactivated. Contact admin.")>>
    /\ \E i \in Matching(s) :
         ~users[i].isActive /\ BcryptCompare(req[s].body.password, users[i].password)

\* C8: a login for an email no record has, and a login with a wrong password
\* for an active account, are answered with the same response: status 401
\* and the body {error: "Invalid credentials"}, nothing else in it.
C8_SameResponse ==
  [][\A s \in Slots :
       LoginStep(s)
         => /\ (req[s].pc = "findOne" /\ Matching(s) = {})
                 => /\ req'[s].pc = "done"
                    /\ req'[s].res = <<ErrorResponse(401, "Invalid credentials")>>
            /\ (req[s].pc = "compare"
                  /\ ~BcryptCompare(req[s].body.password,
                                    users[req[s].user[1]._id].password))
                 => /\ req'[s].pc = "done"
                    /\ req'[s].res = <<ErrorResponse(401, "Invalid credentials")>>]_vars

\* A login with a wrong password for an active account was answered with
\* 401 "Invalid credentials".
C8_Witness ==
  \E s \in Slots :
    /\ req[s].kind = "login" /\ req[s].pc = "done"
    /\ req[s].res = <<ErrorResponse(401, "Invalid credentials")>>
    /\ \E i \in Matching(s) :
         users[i].isActive /\ ~BcryptCompare(req[s].body.password, users[i].password)

\* A well-formed token signed with the secret over its payload and not yet
\* expired at this clock.
Verifies(token, clock) ==
  /\ token.parts = 3
  /\ token.sig = [key |-> JWT_SECRET, over |-> token.payload]
  /\ clock < token.payload.exp

\* Slot s handles, in this step, a request to a protected route.
GateStep(s) == req'[s].kind = "auth" /\ req'[s] # req[s]

\* The header is absent or does not start with "Bearer ".
NoBearer(h) ==
  h = HeaderAbsent \/ Len(h) < 2 \/ h[1] # Lit("Bearer") \/ h[2] # Lit(" ")

\* Nothing, or a space, follows the scheme prefix.
EmptyToken(h) == Len(h) = 2 \/ h[3] = Lit(" ")

\* C9: the gate answers a header that is absent or does not start with
\* "Bearer " with 401 "No token provided", an empty token after the prefix
\* with 401 "Malformed authorization header", a token that does not verify
\* with 401 "Invalid or expired token", and otherwise sets req.userId and
\* req.userRole from the token and calls next; it calls next exactly when it
\* sends no response.
C9_GateOutcomes ==
  [][\A s \in Slots :
       GateStep(s)
         => LET r == req'[s]
                h == r.header
                token == PieceToken(SecondPiece(h))
            IN  /\ r.pc = "done"
                /\ r.next <=> r.res = <<>>
                /\ users' = users
                /\ IF NoBearer(h)
                     THEN r.res = <<ErrorResponse(401, "No token provided")>>
                   ELSE IF EmptyToken(h)
                     THEN r.res =
                            <<ErrorResponse(401, "Malformed authorization header")>>
                   ELSE IF ~Verifies(token, now)
                     THEN r.res = <<ErrorResponse(401, "Invalid or expired token")>>
                   ELSE /\ r.next
                        /\ r.userId = token.payload.userId
                        /\ r.userRole = token.payload.role]_vars

\* The gate passed a request on with the identity and role of an admin's
\* token.
C9_Witness ==
  \E s \in Slots :
    /\ req[s].kind = "auth" /\ req[s].next /\ req[s].res = <<>>
    /\ req[s].userId \in 1..Len(users)
    /\ req[s].userRole = "admin"
    /\ users[req[s].userId].role = "admin"

\* C10: a token in a register or login response carries the id and role of
\* the user returned with it, the day of the response as iat and that day
\* plus 7 as exp; shown to the gate under the Bearer scheme, a token the
\* server issued on day t is accepted with exactly its id and role on every
\* day before t + 7 and answered with 401 "Invalid or expired token" on
\* every day after t + 7.
C10_SevenDayLifetime ==
  [][\A s \in Slots :
       /\ (IssuesToken(s) /\ req'[s].kind \in {"register", "login"})
            => LET t == req'[s].res[1].token[1]
                   u == req'[s].res[1].user[1]
               IN  /\ t.parts = 3
                   /\ t.sig = [key |-> JWT_SECRET, over |-> t.payload]
                   /\ t.payload = [userId |-> u.id, role |-> u.role,
                                   iat |-> now, exp |-> now + 7]
       /\ (GateStep(s) /\ Len(req'[s].header) = 3 /\ ~NoBearer(req'[s].header)
             /\ req'[s].header[3].tok # <<>>)
            => LET t == req'[s].header[3].tok[1]
               IN  (t.parts = 3 /\ t.sig = [key |-> JWT_SECRET, over |-> t.payload]
                      /\ t.payload.exp = t.payload.iat + 7)
                     => /\ now < t.payload.iat + 7
                             => /\ req'[s].next
                                /\ req'[s].userId = t.payload.userId
                                /\ req'[s].userRole = t.payload.role
                        /\ now > t.payload.iat + 7
                             => /\ ~req'[s].next
                                /\ req'[s].res =
                                     <<ErrorResponse(401, "Invalid or expired token")>>]_vars

\* A token the server issued on day 0 was refused by the gate on day 8.
C10_Witness ==
  \E s \in Slots :
    /\ req[s].kind = "auth" /\ now = 8
    /\ req[s].res = <<ErrorResponse(401, "Invalid or expired token")>>
    /\ Len(req[s].header) = 3 /\ req[s].header[3].tok # <<>>
    /\ LET t == req[s].header[3].tok[1]
       IN  /\ t.sig = [key |-> JWT_SECRET, over |-> t.payload]
           /\ t.payload.iat = 0 /\ t.payload.exp = 7

\* C11: the gate passes on a request that shows a token the server issued
\* and that has not expired, with the token's id and role, also when the
\* account of that id is deactivated in the collection at that moment, and
\* it leaves the collection as it is; a login whose lookup finds that
\* account deactivated is refused with 401 and no token.
C11_GateIgnoresDeactivation ==
  [][\A s \in Slots :
       /\ (GateStep(s) /\ Len(req'[s].header) = 3 /\ ~NoBearer(req'[s].header)
             /\ req'[s].header[3].tok # <<>>)
            => LET t == req'[s].header[3].tok[1]
                   id == t.payload.userId
               IN  (Verifies(t, now) /\ id \in 1..Len(users)
                      /\ ~users[id].isActive)
                     => /\ req'[s].next /\ req'[s].res = <<>>
                        /\ req'[s].userId = id
                        /\ req'[s].userRole = t.payload.role
                        /\ users' = users
       /\ (LoginStep(s) /\ req[s].pc = "findOne"
             /\ \E i \in Matching(s) : ~users[i].isActive)
            => /\ req'[s].pc = "done"
               /\ req'[s].res[1].status = 401
               /\ req'[s].res[1].token = <<>>]_vars

\* The gate has passed on a request with the token of an account that is
\* deactivated, on the eve of the token's expiry, and a login for that
\* account has been refused as deactivated.
C11_Witness ==
  \E s, l \in Slots :
    /\ req[s].kind = "auth" /\ req[s].next
    /\ req[s].userId \in 1..Len(users)
    /\ ~users[req[s].userId].isActive
    /\ req[s].header[3].tok[1].payload.iat = 0 /\ now = 6
    /\ req[l].kind = "login" /\ req[l].pc = "done"
    /\ req[l].res = <<ErrorResponse(401, "Account is deactivated. Contact admin.")>>
    /\ req[s].userId \in Matching(l)

\* Slot s holds a request whose handler has started and not yet answered.
InFlight(s) == req[s].pc \notin {"idle", "done"}

\* C13: a process started without JWT_SECRET exits in server.js before
\* app.listen: whenever the server has listened, a request has been handled
\* by register, login or the gate, or a token has been signed or verified,
\* JWT_SECRET was set, and every token in a response is signed with it.
C13_NoSecretNoService ==
  /\ server.listened => server.secret
  /\ \A s \in Slots :
       /\ req[s].kind # "idle" => server.secret /\ server.listened
       /\ (req[s].res # <<>> /\ req[s].res[1].token # <<>>)
            => req[s].res[1].token[1].sig.key = JWT_SECRET
  /\ ~server.secret => server.pc \in {"loading", "exited"}

\* A process with MONGODB_URI and without JWT_SECRET has exited as fatal
\* without having listened or handled a request.
C13_Witness ==
  /\ server.uri /\ ~server.secret
  /\ server.pc = "exited" /\ server.exit = "fatal" /\ ~server.listened
  /\ \A s \in Slots : req[s].kind = "idle"

\* C19 as claimed: whenever the process has exited for a fatal condition it
\* had not started listening, and no request is in flight.
C19_FatalExitOnlyAtStartup ==
  server.exit = "fatal"
    => /\ ~server.listened
       /\ \A s \in Slots : ~InFlight(s)

\* The connection was refused while a request was waiting for the
\* collection: the process has exited as fatal after it had listened, the
\* request unanswered.
C19_Witness ==
  /\ server.exit = "fatal" /\ server.listened /\ server.mongo = "failed"
  /\ \E s \in Slots : InFlight(s) /\ req[s].res = <<>>

\* How far a handler has come: its awaits in order, then its response.
Rank(pc) ==
  CASE pc = "findOne" -> 1 [] pc = "compare" -> 2 [] pc = "save" -> 3
    [] pc = "done" -> 4 [] OTHER -> 0

\* C14: every step of a register or login handler moves it forward to a
\* later await or to its response, never back to an operation it has
\* awaited (nothing is retried); it answers once, when it ends, with a
\* status among 200, 201, 400, 401 and 500; a findOne, save or compare that
\* fails ends the request in that step with 500, the collection unchanged;
\* the gate ends in one step with either a 401 response or a call of next,
\* not both; and every request in flight is eventually answered.
C14_EveryRequestAnswered ==
  /\ [][\A s \in Slots :
          /\ (InFlight(s) /\ req'[s] # req[s])
               => /\ req'[s].kind = req[s].kind
                  /\ Rank(req'[s].pc) > Rank(req[s].pc)
                  /\ req[s].res = <<>>
          /\ (req'[s] # req[s] /\ req'[s].kind \in {"register", "login"})
               => /\ req'[s].pc = "done" <=> Len(req'[s].res) = 1
                  /\ req'[s].pc # "done" => req'[s].res = <<>>
                  /\ req'[s].pc = "done"
                       => req'[s].res[1].status \in {200, 201, 400, 401, 500}
                  /\ (req'[s].pc = "done" /\ req'[s].res[1].status = 500)
                       => users' = users /\ req'[s].res[1].token = <<>>
          /\ GateStep(s)
               => /\ req'[s].pc = "done"
                  /\ req'[s].next <=> req'[s].res = <<>>
                  /\ req'[s].res # <<>> => req'[s].res[1].status = 401]_vars
  /\ \A s \in Slots : InFlight(s) ~> ~InFlight(s)

\* A login whose save failed was answered with 500, after a lookup and a
\* password check that succeeded.
C14_Witness ==
  \E s \in Slots :
    /\ req[s].kind = "login" /\ req[s].pc = "done"
    /\ req[s].res[1].status = 500
    /\ req[s].res[1].error = "Login failed. Please try again."
    /\ \E i \in Matching(s) :
         /\ users[i].isActive /\ users[i].lastLogin = NoDate
         /\ BcryptCompare(req[s].body.password, users[i].password)

\* The members of the user object a response may carry.
PublicFields ==
  {"id", "name", "email", "role", "rollNumber", "department", "semester",
   "batch", "proctorId", "adminLevel", "permissions"}

\* C12: every response of register and login has the members status, error,
\* token and user (and detail on a 500 in development) and no other; its
\* user object, when it has one, has exactly the eleven public members, none
\* of them the password sent with the request; its token carries userId,
\* role, iat and exp only; a response that is not a success carries no user
\* and no token.
C12_NoPasswordInResponse ==
  \A s \in Slots :
    (req[s].kind \in {"register", "login"} /\ req[s].res # <<>>)
      => LET r == req[s].res[1]
         IN  /\ DOMAIN r \subseteq {"status", "error", "token", "user", "detail"}
             /\ "detail" \in DOMAIN r => r.status = 500 /\ server.dev
             /\ r.status \notin {200, 201} => r.user = <<>> /\ r.token = <<>>
             /\ r.user # <<>>
                  => /\ DOMAIN r.user[1] = PublicFields
                     /\ \A f \in {"name", "email", "rollNumber", "batch", "proctorId"} :
                          r.user[1][f] # req[s].body.password
             /\ r.token # <<>>
                  => DOMAIN r.token[1].payload = {"userId", "role", "iat", "exp"}

\* A login was answered with the user object of a record whose stored
\* password is the digest of the password sent.
C12_Witness ==
  \E s \in Slots :
    /\ req[s].kind = "login" /\ req[s].pc = "done" /\ req[s].res[1].status = 200
    /\ LET id == req[s].res[1].user[1].id
       IN  /\ users[id].password.depth = 1
           /\ users[id].password.plain = req[s].body.password

\* C15: every stored password is a digest, the hash applied once, never the
\* plaintext and never a hash of a digest, and the plaintext it was made
\* from verifies against it; a record is created with the digest of the
\* password of the request that creates it; no step, a login's save
\* included, changes the stored password of a record, and the hasher does
\* not run in a login.
C15_HashedOnce ==
  /\ [](\A i \in 1..Len(users) :
          /\ users[i].password.depth = 1
          /\ users[i].password # Plain(users[i].password.plain)
          /\ BcryptCompare(users[i].password.plain, users[i].password))
  /\ [][/\ \A i \in 1..Len(users) : users'[i].password = users[i].password
        /\ \A i \in (1..Len(users')) \ (1..Len(users)) :
             \E s \in Slots :
               /\ req[s].kind = "register" /\ req[s].pc = "save"
               /\ req'[s].pc = "done" /\ req'[s].res[1].status = 201
               /\ users'[i].password.plain = req[s].body.password
        /\ \A s \in Slots :
             (LoginStep(s) /\ req'[s].pc = "done")
               => ~req'[s].hashed]_vars

\* A second login for a record, on a later day than the first, has passed
\* the password check against the stored digest.
C15_Witness ==
  \E s \in Slots :
    /\ req[s].kind = "login" /\ req[s].pc = "save"
    /\ \E i \in Matching(s) :
         /\ users[i].lastLogin # NoDate /\ users[i].lastLogin < now
         /\ users[i].password.depth = 1

\* C16: a step of a login handler that answers 200 leaves every other
\* record as it is and changes, in the record it loaded, no field other
\* than lastLogin: role, createdAt, email, password, adminLevel, permissions
\* and isActive stay as the collection held them just before, also when
\* they were changed after the lookup; every other step of a login handler,
\* those that answer 400, 401 or 500 included, leaves the collection
\* unchanged.
C16_LoginWritesOnlyLastLogin ==
  [][\A s \in Slots :
       (req'[s].kind = "login" /\ req'[s] # req[s])
         => IF req'[s].pc = "done" /\ req'[s].res[1].status = 200
              THEN LET id == req[s].user[1]._id
                   IN  /\ Len(users') = Len(users)
                       /\ \A i \in 1..Len(users) : i # id => users'[i] = users[i]
                       /\ DOMAIN users'[id] = DOMAIN users[id]
                       /\ \A f \in DOMAIN users[id] \ {"lastLogin"} :
                            users'[id][f] = users[id][f]
                       /\ users'[id].lastLogin = req[s].user[1].lastLogin
              ELSE users' = users]_vars

\* A login of the admin was answered with the adminLevel it had loaded, the
\* record holds another adminLevel with its permissions, is deactivated,
\* has the lastLogin of that login and the createdAt of day 0.
C16_Witness ==
  \E s \in Slots :
    /\ req[s].kind = "login" /\ req[s].pc = "done" /\ req[s].res[1].status = 200
    /\ LET view == req[s].res[1].user[1]
           u == users[view.id]
       IN  /\ view.adminLevel = "super" /\ u.adminLevel = "limited"
           /\ ~u.permissions["manageUsers"]
           /\ ~u.isActive
           /\ u.lastLogin = now /\ now > 0 /\ u.createdAt = 0

\* A string field of a stored document is present and not empty.
Given(v) == v # Undefined /\ v # <<>>

\* C17 as claimed: every stored student has a non-empty rollNumber,
\* department, semester and batch, every stored proctor a non-empty
\* proctorId and department, every stored admin a department.
C17_RequiredFieldsGiven ==
  \A i \in 1..Len(users) :
    /\ users[i].role = "student"
         => /\ Given(users[i].rollNumber)
            /\ users[i].department \notin {Absent, ""}
            /\ users[i].semester \notin {NoNumber, NaN}
            /\ Given(users[i].batch)
    /\ users[i].role = "proctor"
         => /\ Given(users[i].proctorId)
            /\ users[i].department \notin {Absent, ""}
    /\ users[i].role = "admin"
         => users[i].department \notin {Absent, ""}

\* A student whose rollNumber was sent as a blank was registered with 201
\* and is stored with the empty rollNumber.
C17_Witness ==
  \E s \in Slots :
    /\ Created(s) /\ req[s].body.role = "student"
    /\ req[s].body.rollNumber = <<" ">>
    /\ users[req[s].res[1].user[1].id].rollNumber = <<>>
    /\ req[s].res[1].user[1].rollNumber = <<>>

\* The token is well formed and signed with the server's secret.
Genuine(t) ==
  t.parts = 3 /\ t.sig = [key |-> JWT_SECRET, over |-> t.payload]

\* C18: every token signed with the server's secret that a response or a
\* header holds names a stored record and that record's role, and was
\* signed no later than now; such a token first appears in the 201 or 200
\* response of a register or login request, bound to the id and role of the
\* record returned with it; no record's role ever changes and no record is
\* removed; and the gate sets req.userId and req.userRole and calls next
\* only for a header whose token is one of those tokens, with exactly the id
\* and role bound into it, so that a token with rewritten claims, signed
\* with another key, or never issued is always answered with 401.
C18_InjectedIdentityWasIssued ==
  /\ [](\A t \in HeldTokens :
          /\ Genuine(t)
          /\ t.payload.userId \in 1..Len(users)
          /\ t.payload.role = users[t.payload.userId].role
          /\ t.payload.iat <= now
          /\ t.payload.exp = t.payload.iat + SevenDays)
  /\ [][/\ Len(users') >= Len(users)
        /\ \A i \in 1..Len(users) : users'[i].role = users[i].role
        /\ \A t \in HeldTokens' \ HeldTokens :
             \E s \in Slots :
               /\ IssuesToken(s)
               /\ req'[s].kind \in {"register", "login"}
               /\ req'[s].res[1].status \in {200, 201}
               /\ t = req'[s].res[1].token[1]
               /\ t.payload.userId = req'[s].res[1].user[1].id
               /\ t.payload.role = req'[s].res[1].user[1].role
               /\ t.payload.role = users'[t.payload.userId].role
               /\ t.payload.iat = now
        /\ \A s \in Slots :
             GateStep(s)
               => LET t == PieceToken(SecondPiece(req'[s].header))
                  IN  /\ req'[s].next
                           => /\ t \in HeldTokens
                              /\ req'[s].userId = t.payload.userId
                              /\ req'[s].userRole = t.payload.role
                              /\ req'[s].userRole = users[req'[s].userId].role
                      /\ t \notin HeldTokens
                           => /\ ~req'[s].next
                              /\ req'[s].userId = 0 /\ req'[s].userRole = ""
                              /\ req'[s].res[1].status = 401]_vars

\* The gate has passed on a request with the id and role of the record a
\* register response returned together with the token the request shows.
C18_Witness ==
  \E s, r \in Slots :
    /\ req[s].kind = "auth" /\ req[s].next
    /\ req[r].kind = "register" /\ req[r].pc = "done"
    /\ req[r].res # <<>> /\ req[r].res[1].status = 201
    /\ req[s].header = <<Lit("Bearer"), Lit(" "), Tok(req[r].res[1].token[1])>>
    /\ req[s].userId = req[r].res[1].user[1].id
    /\ req[s].userRole = req[r].res[1].user[1].role

=============================================================================
